---- MODULE Spec2Model ----
(***************************************************************************)
(* Model of the Telegram ingestion loop of tg_bot: TelegramParser.run,    *)
(* process_chat, process_message and _get_chat_messages (main.py), the    *)
(* store operations (src/database/operations.py) and the helpers          *)
(* (src/helpers.py).                                                      *)
(*                                                                         *)
(* Time is a clock in seconds that advances only where the code sleeps.   *)
(* Text is a sequence of characters (one-character strings); the anchor   *)
(* opening '<a href="' that get_text_with_link appends and that           *)
(* check_duplicate splits on is kept as one element.                      *)
(***************************************************************************)
EXTENDS Integers, Sequences, FiniteSets, TLC

VARIABLES
    db,                    \* table telegram_links: id -> row
    messages,              \* table messages, in insertion order
    dupCache,              \* alru_cache of check_duplicate: text -> entry
    now,                   \* clock, seconds
    exclude_unknown_chats, \* argument of run()
    pc,                    \* position of the worker inside run()/process_chat()
    links,                 \* run(): the objects returned by get_tg_links
    idx,                   \* run(): position of the for loop in links
    inaccessible_chats,    \* run(): set of links whose process_chat raised
    stats,                 \* run(): ParserStats of the iteration
    poll,                  \* process_chat(): locals of the poll and its record
    polled,                \* run(): the links handed to process_chat in this pass, and
                           \* whether the poll ended in the handler of unexpected errors
    fetched,               \* number of messages the platform has yielded so far
    faults,                \* number of store calls that have failed so far
    catalog,               \* tables categories, keywords, category_telegram_link
    call,                  \* a call of a helper on its own: arguments and result
    workers                \* two parser processes on one store: position and in-memory link

vars == <<db, messages, dupCache, now, exclude_unknown_chats, pc, links, idx,
          inaccessible_chats, stats, poll, polled, fetched, faults, catalog, call, workers>>

(***************************************************************************)
(* Bounds of the model.                                                    *)
(***************************************************************************)
NumLinks == 3          \* rows of telegram_links
BatchLimit == 2        \* .limit(30) of get_tg_links, scaled to NumLinks
MaxMessagesPerChat == 2 \* ParserConfig.MAX_MESSAGES_PER_CHAT (300), scaled to MaxFetched
MaxFetched == 3        \* messages the platform yields in one run of the model
MaxStoreFaults == 1    \* store calls that fail in one run of the model
MaxClock == 21620      \* no sleep ends after this: a pass, the 6 hour pause, and the start of a second pass

(***************************************************************************)
(* Program constants.                                                      *)
(***************************************************************************)
MIN_DELAY == 1
MAX_DELAY == 5
PAUSE_AFTER_FULL_PARSING == 6 * 60 * 60
NO_LINKS_SLEEP == 300
CACHE_TTL == 300
DUPLICATE_WINDOW == 24 * 60 * 60
THRESHOLD_NUM == 7     \* MAX_LEVEL_OF_DUPLICATE_SIMILARITY = 0.7
THRESHOLD_DEN == 10
IDF_UNIQUE_SQ_PCT == 198 \* (ln(3/2) + 1)^2 = 1.975, in hundredths: smooth idf of a term of one document out of two

NULL == -1             \* SQL NULL / Python None in an integer column
NONE == "None"         \* SQL NULL / Python None in a string or boolean column
SESSION == "me"        \* settings.session_name of this worker
OTHER_SESSION == "other"

LinkIds == 1..NumLinks

Max(a, b) == IF a >= b THEN a ELSE b
Min(a, b) == IF a <= b THEN a ELSE b
Range(s) == {s[i] : i \in 1..Len(s)}

(***************************************************************************)
(* Text.                                                                   *)
(***************************************************************************)
ANCHOR == "<a href=\""
UpperCase == <<"A","B","C","D","E","F","G","H","I","J","K","L","M",
               "N","O","P","Q","R","S","T","U","V","W","X","Y","Z">>
LowerCase == <<"a","b","c","d","e","f","g","h","i","j","k","l","m",
               "n","o","p","q","r","s","t","u","v","w","x","y","z">>
Digits == {"0","1","2","3","4","5","6","7","8","9","_"}

\* str.lower() on one character
lower_char(c) ==
    IF \E i \in 1..26 : UpperCase[i] = c
    THEN LowerCase[CHOOSE i \in 1..26 : UpperCase[i] = c]
    ELSE c

\* str.lower()
lower(s) == [i \in 1..Len(s) |-> lower_char(s[i])]

\* regex \w
IsWordChar(c) == c \in Range(UpperCase) \cup Range(LowerCase) \cup Digits

\* needle in haystack (Python's substring test)
contains(haystack, needle) ==
    \E o \in 0..(Len(haystack) - Len(needle)) :
        \A i \in 1..Len(needle) : haystack[o + i] = needle[i]

\* str.startswith
startswith(s, p) == Len(s) >= Len(p) /\ \A i \in 1..Len(p) : s[i] = p[i]

\* text.split('<a href="')[0]
RECURSIVE split_anchor_head(_)
split_anchor_head(s) ==
    IF s = <<>> \/ Head(s) = ANCHOR THEN <<>>
    ELSE <<Head(s)>> \o split_anchor_head(Tail(s))

\* BeautifulSoup(s, "html.parser").text: the text outside tags
RECURSIVE html_text_scan(_, _)
html_text_scan(s, inTag) ==
    IF s = <<>> THEN <<>>
    ELSE IF inTag THEN html_text_scan(Tail(s), Head(s) # ">")
    ELSE IF Head(s) \in {"<", ANCHOR, "</a>"} THEN html_text_scan(Tail(s), Head(s) # "</a>")
    ELSE <<Head(s)>> \o html_text_scan(Tail(s), FALSE)

html_text(s) == html_text_scan(s, FALSE)

\* TfidfVectorizer's analyzer: lower-case, then the runs of two or more word characters
RECURSIVE token_scan(_, _)
token_scan(s, cur) ==
    IF s = <<>> THEN (IF Len(cur) >= 2 THEN <<cur>> ELSE <<>>)
    ELSE IF IsWordChar(Head(s)) THEN token_scan(Tail(s), Append(cur, Head(s)))
    ELSE (IF Len(cur) >= 2 THEN <<cur>> ELSE <<>>) \o token_scan(Tail(s), <<>>)

tokens(s) == token_scan(lower(s), <<>>)

count(t, toks) == Cardinality({i \in 1..Len(toks) : toks[i] = t})

RECURSIVE SumOver(_, _, _)
SumOver(S, ta, tb) ==
    IF S = {} THEN 0
    ELSE LET t == CHOOSE x \in S : TRUE
         IN count(t, ta) * count(t, tb) + SumOver(S \ {t}, ta, tb)

\* TfidfVectorizer().fit_transform([a, b]) raises ValueError on an empty vocabulary
tfidf_raises(a, b) == Range(tokens(a)) \cup Range(tokens(b)) = {}

\* cosine_similarity(TfidfVectorizer().fit_transform([a, b]))[0][1] >= MAX_LEVEL_OF_DUPLICATE_SIMILARITY
\* tf-idf weights: tf * 1 for a term of both documents, tf * (ln(3/2) + 1) for a
\* term of one; squared norms are kept in hundredths
similarity_ge_threshold(a, b) ==
    LET ta == tokens(a)
        tb == tokens(b)
        Va == Range(ta)
        Vb == Range(tb)
        dot == SumOver(Va \cap Vb, ta, tb)
        na == 100 * SumOver(Va \cap Vb, ta, ta) + IDF_UNIQUE_SQ_PCT * SumOver(Va \ Vb, ta, ta)
        nb == 100 * SumOver(Va \cap Vb, tb, tb) + IDF_UNIQUE_SQ_PCT * SumOver(Vb \ Va, tb, tb)
    IN  /\ na > 0
        /\ nb > 0
        /\ THRESHOLD_DEN * THRESHOLD_DEN * 100 * 100 * dot * dot >= THRESHOLD_NUM * THRESHOLD_NUM * na * nb

(***************************************************************************)
(* The link column: a sequence of pieces, "t.me/" and "+" being the        *)
(* prefixes the code tests for.                                            *)
(***************************************************************************)
TME == <<"t.me/">>
TME_PLUS == <<"t.me/", "+">>
LINK_INVITE == <<"t.me/", "+", "inv">>
LINK_PUBLIC == <<"t.me/", "name">>
LINK_OTHER == <<"@", "name">>
LINK_EMPTY == <<>>

\* TelegramLink rows (models.py)
Row(id, link, chat_id, last_check_at, last_message_id, invalid, parser_account) ==
    [id |-> id, link |-> link, chat_id |-> chat_id, last_check_at |-> last_check_at,
     last_message_id |-> last_message_id, invalid |-> invalid,
     parser_account |-> parser_account]

\* the chat the platform reports for messages of a source
PlatformChatId(id) == 100 + id

(***************************************************************************)
(* helpers.py                                                              *)
(***************************************************************************)
\* extract_chat: <<>> stands for the None result; an int chat id is <<chat_id>>
extract_chat(telegram_link) ==
    IF telegram_link.link = <<>> THEN <<>>
    ELSE IF startswith(telegram_link.link, TME_PLUS) THEN telegram_link.link
    ELSE IF startswith(telegram_link.link, TME) THEN Tail(telegram_link.link)
    ELSE IF telegram_link.chat_id # NULL THEN <<telegram_link.chat_id>>
    ELSE <<>>

\* tables categories, keywords, category_telegram_link of the run loop's store
Categories == {[id |-> 7, global_search |-> 1], [id |-> 8, global_search |-> 0]}
Keywords == {[id |-> "k1", keyword |-> <<"s","a","l","e">>, category_id |-> 7],
             [id |-> "k2", keyword |-> <<"d","e","a","l">>, category_id |-> 8]}
CategoryTelegramLink == {[category_id |-> 7, telegram_link_id |-> 1],
                         [category_id |-> 8, telegram_link_id |-> 2]}

InitCatalog ==
    [categories |-> Categories, keywords |-> Keywords,
     category_telegram_link |-> CategoryTelegramLink]

\* get_keyword_rows: Keyword JOIN Category JOIN CategoryTelegramLinkLink
\* WHERE telegram_link_id = id OR global_search = 1 GROUP BY Keyword.id
get_keyword_rows(telegram_link_id) ==
    {k \in catalog.keywords :
        \E c \in catalog.categories, a \in catalog.category_telegram_link :
            /\ c.id = k.category_id
            /\ a.category_id = c.id
            /\ (a.telegram_link_id = telegram_link_id \/ c.global_search = 1)}

\* find_message_categories
find_message_categories(text, telegram_link) ==
    IF text = <<>> THEN {}
    ELSE {k.category_id : k \in {kr \in get_keyword_rows(telegram_link.id) :
                                    contains(lower(text), kr.keyword)}}

\* get_text_with_link
get_text_with_link(message) ==
    message.text
      \o <<"\n", "\n", ANCHOR, "permalink", "\"", ">", "title", "</a>">>
      \o (IF message.username # NONE THEN <<"\n", "\n", "@", message.username>> ELSE <<>>)

(***************************************************************************)
(* src/database/operations.py                                              *)
(***************************************************************************)
\* get_tg_links, the WHERE clause of each branch
eligible(table, exclude_unknown, session_name) ==
    IF exclude_unknown
    THEN {i \in DOMAIN table :
            /\ table[i].chat_id # NULL
            /\ table[i].parser_account \in {session_name, NONE}}
    ELSE {i \in DOMAIN table :
            /\ table[i].chat_id = NULL
            /\ table[i].parser_account \in {session_name, NONE}
            /\ table[i].invalid \in {"False", NONE}}

\* the CASE with its two values exchanged: rows never checked would sort first
order_by_case_nulls_first(row) == IF row.last_check_at = NULL THEN 0 ELSE 1

\* case((TelegramLink.last_check_at == None, 1), else_=0)
order_by_case(row) == IF row.last_check_at = NULL THEN 1 ELSE 0

\* ORDER BY case(...), last_check_at ASC: r1 may come before r2
\* (ORDER BY rand() in the other branch: any order)
order_leq(r1, r2, exclude_unknown) ==
    \/ ~exclude_unknown
    \/ order_by_case(r1) < order_by_case(r2)
    \/ /\ order_by_case(r1) = order_by_case(r2)
       /\ (r1.last_check_at = NULL \/ r1.last_check_at <= r2.last_check_at)

query_limit(exclude_unknown) == IF exclude_unknown THEN BatchLimit ELSE 1

\* get_tg_links: the results the query can give (rows of equal rank come in any order)
get_tg_links(table, exclude_unknown, session_name) ==
    LET E == eligible(table, exclude_unknown, session_name)
        n == Min(Cardinality(E), query_limit(exclude_unknown))
        picks == {s \in [1..n -> E] :
                    /\ \A i, j \in 1..n : i < j =>
                          /\ s[i] # s[j]
                          /\ order_leq(table[s[i]], table[s[j]], exclude_unknown)
                    /\ \A e \in E : (\A i \in 1..n : s[i] # e) =>
                          \A i \in 1..n : order_leq(table[s[i]], table[e], exclude_unknown)}
    IN  {[i \in 1..n |-> table[s[i]]] : s \in picks}

\* check_duplicate, the body under the cache: TRUE means "not a duplicate"
RECURSIVE scan_sent_texts(_, _)
\* the handler returning False: an internal error would suppress the message
check_duplicate_except_false == FALSE

\* check_duplicate lines 149-151: except Exception: log, return True
check_duplicate_except == TRUE

scan_sent_texts(text, sent) ==
    IF sent = <<>> THEN TRUE
    ELSE LET sent_text == html_text(split_anchor_head(Head(sent)))
         IN  IF tfidf_raises(text, sent_text) THEN check_duplicate_except
             ELSE IF similarity_ge_threshold(text, sent_text) THEN FALSE
             ELSE scan_sent_texts(text, Tail(sent))

check_duplicate_uncached(text, table, clock, internal_error) ==
    IF text = <<>> THEN TRUE
    ELSE IF internal_error THEN check_duplicate_except
    ELSE LET yesterday == clock - DUPLICATE_WINDOW
             recent == SelectSeq(table, LAMBDA m : m.created_at > yesterday)
         IN  scan_sent_texts(html_text(split_anchor_head(text)),
                             [i \in 1..Len(recent) |-> recent[i].text])

\* @alru_cache(ttl=300) around check_duplicate: the verdict and the cache after the call
cache_hit(cache, text) == \E e \in cache : e.text = text

check_duplicate(text, table, cache, clock, internal_error) ==
    IF cache_hit(cache, text)
    THEN [value |-> (CHOOSE e \in cache : e.text = text).value, cache |-> cache]
    ELSE LET v == check_duplicate_uncached(text, table, clock, internal_error)
         IN  [value |-> v,
              cache |-> cache \cup {[text |-> text, value |-> v, expires |-> clock + CACHE_TTL]}]

\* the cache's timers drop an entry CACHE_TTL seconds after it was stored
expire(cache, clock) == {e \in cache : e.expires > clock}

\* save_message adding the row twice
save_message_twice(table, text, categories, chat_id, link, clock) ==
    LET row == [text |-> text, categories |-> categories, chat_id |-> chat_id,
                link |-> link, created_at |-> clock]
    IN  Append(Append(table, row), row)

\* save_message: one new row with its category links
save_message(table, text, categories, chat_id, link, clock) ==
    Append(table, [text |-> text, categories |-> categories, chat_id |-> chat_id,
                   link |-> link, created_at |-> clock])

\* save_chat_id: the object after the call
save_chat_id_binds(telegram_link) == telegram_link.chat_id \in {NULL, 0}

save_chat_id(telegram_link, chat_id, session_name) ==
    IF ~save_chat_id_binds(telegram_link) THEN telegram_link
    ELSE [telegram_link EXCEPT !.chat_id = chat_id, !.parser_account = session_name]

\* update_telegram_link_last_check: the row it merges into the store
update_telegram_link_last_check(telegram_link, last_check_at, last_message_id) ==
    [telegram_link EXCEPT !.last_check_at = last_check_at,
                          !.last_message_id = last_message_id]

(***************************************************************************)
(* main.py: TelegramParser                                                 *)
(***************************************************************************)
\* line 108 returning the id: a duplicate would move the cursor
return_duplicate_id(message) == message.id

\* process_message line 108: return None
return_duplicate(message) == NULL

\* line 113 returning None: an unmatched message would not move the cursor
return_no_categories_none(message) == NULL

\* process_message line 113: return message.id
return_no_categories(message) == message.id

\* process_message: the return value (NULL for None), how check_duplicate judged
\* the message and the categories it matched, the message table, the duplicate
\* cache and the statistics after the call, and whether it raised.
\* fault names the store call that fails in this call, if any.
process_message(message, chat_id, telegram_link, table, cache, clock, fault) ==
    LET out(ret, judged, categories, rows, c, relevant, raised) ==
            [ret |-> ret, judged |-> judged, categories |-> categories, messages |-> rows,
             cache |-> c, relevant |-> relevant, raised |-> raised]
    IN  IF message.text = <<>>
        THEN out(NULL, "no_text", {}, table, cache, 0, FALSE)
        ELSE LET dup == check_duplicate(message.text, table, cache, clock,
                                        fault = "check_duplicate")
             IN  IF ~dup.value
                 THEN out(return_duplicate(message), "duplicate", {}, table, dup.cache, 0, FALSE)
                 ELSE IF fault = "get_keyword_rows"
                 THEN out(NULL, "raised", {}, table, dup.cache, 0, TRUE)
                 ELSE LET categories == find_message_categories(message.text, telegram_link)
                          text_with_link == get_text_with_link(message)
                      IN  IF categories = {}
                          THEN out(return_no_categories(message), "unique", {}, table,
                                   dup.cache, 0, FALSE)
                          ELSE IF fault = "save_message"
                          THEN out(NULL, "raised", {}, table, dup.cache, 0, TRUE)
                          ELSE out(message.id, "unique", categories,
                                   IF text_with_link = <<>> THEN table
                                   ELSE save_message(table, text_with_link, categories,
                                                     chat_id, <<chat_id, message.id>>, clock),
                                   dup.cache, 1, FALSE)

\* line 210 without the max(): the cursor takes the id of the last message
advance_cursor_overwrite(new_max_id, max_id) == new_max_id

\* process_chat line 210
advance_cursor(new_max_id, max_id) == Max(new_max_id, max_id)

\* process_chat lines 219-223: the handlers of the outer try
InvalidHandle == {"UsernameInvalid", "UsernameNotOccupied", "ChannelInvalid"}

\* the handlers with the generic one re-raising after it has logged
process_chat_except_reraise(exc, value) ==
    IF exc = "FloodWait"
    THEN [sleeps |-> <<value>>, propagate |-> FALSE]
    ELSE [sleeps |-> <<>>, propagate |-> TRUE]

\* the handlers with the FloodWait one logging without sleeping
process_chat_except_nosleep(exc, value) ==
    [sleeps |-> <<>>, propagate |-> FALSE]

process_chat_except(exc, value) ==
    IF exc = "FloodWait"
    THEN [sleeps |-> <<value>>, propagate |-> FALSE]
    ELSE [sleeps |-> <<>>, propagate |-> FALSE]

\* _get_chat_messages lines 254-257: both handlers log and end the generator
get_chat_messages_except(exc) ==
    IF exc = "BadRequest" THEN [propagate |-> FALSE] ELSE [propagate |-> FALSE]

\* the cap compared one message late
over_limit_late(messages_in_chat) == messages_in_chat > MaxMessagesPerChat + 1

\* process_chat line 199: messages_in_chat > MAX_MESSAGES_PER_CHAT
over_limit(messages_in_chat) == messages_in_chat > MaxMessagesPerChat

\* the condition without the test of is_accessible
needs_join_any(chat_info) == chat_info.type \in {"group", "supergroup", "channel"}

\* process_chat line 186
needs_join(chat_info) ==
    chat_info.type \in {"group", "supergroup", "channel"} /\ ~chat_info.is_accessible

\* the finally block with the call awaited: the row is written back
process_chat_finally_awaited(stored, telegram_link, last_check_at, max_id) ==
    update_telegram_link_last_check(telegram_link, last_check_at, max_id)

\* process_chat lines 224-226: update_telegram_link_last_check(...) is called
\* without await; the coroutine object is dropped and its body never runs, so
\* the stored row stays as it is
process_chat_finally(stored, telegram_link, last_check_at, max_id) == stored

\* the test of line 274 never taken: an empty batch would go through the loop
no_links_never(tg_links) == FALSE

\* run line 274: if not links
no_links(tg_links) == tg_links = <<>>

\* the for loop left after the first link that was processed
run_next_index_break(i, n) == n + 1

\* run lines 282-300: the for loop moves to the next link after the try statement
run_next_index(i, n) == i + 1

(***************************************************************************)
(* What the platform and the store can answer.                             *)
(***************************************************************************)
FloodValues == {7, 400}        \* FloodWait.value, seconds
PlatformMessages == {[id |-> 1, text |-> <<"s","a","l","e">>, username |-> NONE],
                     [id |-> 2, text |-> <<"s","a","l","e">>, username |-> "bob"],
                     [id |-> 2, text |-> <<"h","i">>, username |-> NONE],
                     [id |-> 1, text |-> <<>>, username |-> NONE]}
ChatInfos == {[type |-> "supergroup", is_accessible |-> FALSE],
              [type |-> "supergroup", is_accessible |-> TRUE],
              [type |-> "private", is_accessible |-> FALSE]}
PlatformErrors == {[exc |-> e, value |-> 0] : e \in InvalidHandle \cup {"BadRequest", "Exception"}}
                    \cup {[exc |-> "FloodWait", value |-> v] : v \in FloodValues}
StoreFaults == {"none", "save_chat_id", "check_duplicate", "get_keyword_rows", "save_message"}
\* random.uniform(MIN_DELAY, MAX_DELAY): the longest delay; no comparison of the
\* program depends on which value of the interval is drawn
Delays == {MAX_DELAY}

\* the rows of telegram_links when the worker starts
InitRow(i) ==
    CASE i % 3 = 1 -> Row(i, LINK_INVITE, NULL, NULL, NULL, NONE, NONE)
      [] i % 3 = 2 -> Row(i, LINK_PUBLIC, PlatformChatId(i), 5, 2, "False", SESSION)
      [] OTHER     -> Row(i, LINK_OTHER, PlatformChatId(i), NULL, NULL, "True", NONE)

NewStats == [message_count |-> 0, chats_count |-> 0, relevant_messages |-> 0, logged |-> 0]

NoCalls == [get_chat |-> 0, join_chat |-> 0, get_chat_history |-> 0]

NoPoll == [id |-> 0, chat |-> <<>>, max_id |-> 0, last_check_at |-> 0, messages_in_chat |-> 0,
           before |-> <<>>, calls |-> NoCalls, raised |-> <<>>, slept |-> <<>>,
           inserted |-> 0, exit |-> "", propagate |-> FALSE, done |-> FALSE,
           chat_info |-> <<>>, joined |-> <<>>, last |-> <<>>]

T0 == 10   \* the clock when run() starts

\* no helper is being called on its own; no second process is running
NoCall == [op |-> "none", text |-> <<>>, telegram_link |-> <<>>, internal_error |-> FALSE,
           done |-> FALSE, result |-> <<>>]
Workers == {SESSION, OTHER_SESSION}
NoWorkers == [w \in Workers |-> [pc |-> "off", telegram_link |-> <<>>]]

Init ==
    /\ db = [i \in LinkIds |-> InitRow(i)]
    /\ messages = <<>>
    /\ dupCache = {}
    /\ now = T0
    /\ exclude_unknown_chats \in BOOLEAN
    /\ pc = "query"
    /\ links = <<>>
    /\ idx = 1
    /\ inaccessible_chats = {}
    /\ stats = NewStats
    /\ poll = NoPoll
    /\ polled = <<>>
    /\ fetched = 0
    /\ faults = 0
    /\ catalog = InitCatalog
    /\ call = NoCall
    /\ workers = NoWorkers

\* asyncio.sleep(d): the clock moves, the cache's timers fire
Sleep(d, cache) ==
    /\ now + d <= MaxClock
    /\ now' = now + d
    /\ dupCache' = expire(cache, now + d)

\* the exception handlers of process_chat's outer try, then the finally block
Raise(at, err, p, cache) ==
    LET h == process_chat_except(err.exc, err.value)
        total == IF h.sleeps = <<>> THEN 0 ELSE h.sleeps[1]
    IN  /\ Sleep(total, cache)
        /\ poll' = [p EXCEPT !.raised = Append(@, [at |-> at, exc |-> err.exc, value |-> err.value]),
                             !.slept = @ \o h.sleeps,
                             !.propagate = h.propagate,
                             !.exit = IF err.exc = "FloodWait" THEN "floodwait" ELSE "error"]
        /\ pc' = "finally"

(***************************************************************************)
(* run(), lines 265-279: one query of the store; no links: sleep and retry *)
(***************************************************************************)
GetLinks ==
    /\ pc = "query"
    /\ \E failed \in {b \in BOOLEAN : b => faults < MaxStoreFaults},
          result \in get_tg_links(db, exclude_unknown_chats, SESSION) :
          /\ faults' = IF failed THEN faults + 1 ELSE faults
          /\ stats' = NewStats
          /\ polled' = <<>>
          /\ poll' = NoPoll
          /\ IF no_links(IF failed THEN <<>> ELSE result)
             THEN /\ Sleep(NO_LINKS_SLEEP, dupCache)
                  /\ UNCHANGED <<links, idx, pc>>
             ELSE /\ links' = (IF failed THEN <<>> ELSE result)
                  /\ idx' = 1
                  /\ pc' = "loop"
                  /\ UNCHANGED <<now, dupCache>>
    /\ UNCHANGED <<db, messages, exclude_unknown_chats, inaccessible_chats, fetched>>
    /\ UNCHANGED <<catalog, call, workers>>

(***************************************************************************)
(* run(), lines 282-292, and process_chat(), lines 158-171: the next link  *)
(* of the batch is skipped, or process_chat is entered                     *)
(***************************************************************************)
NextLink ==
    /\ pc = "loop"
    /\ idx <= Len(links)
    /\ LET telegram_link == links[idx]
           chat == extract_chat(telegram_link)
       IN  IF telegram_link.link \in inaccessible_chats
           THEN /\ idx' = idx + 1
                /\ UNCHANGED <<pc, stats, poll, polled>>
           ELSE /\ stats' = [stats EXCEPT !.chats_count = @ + 1]
                /\ polled' = Append(polled, [id |-> telegram_link.id, error |-> FALSE])
                /\ IF chat = <<>>
                   THEN /\ idx' = run_next_index(idx, Len(links))
                        /\ poll' = NoPoll
                        /\ UNCHANGED pc
                   ELSE /\ poll' = [NoPoll EXCEPT
                                      !.id = telegram_link.id,
                                      !.chat = chat,
                                      !.max_id = IF telegram_link.last_message_id \in {NULL, 0}
                                                 THEN 0 ELSE telegram_link.last_message_id,
                                      !.last_check_at = now,
                                      !.before = <<db[telegram_link.id]>>,
                                      !.inserted = 0]
                        /\ pc' = "resolve"
                        /\ UNCHANGED idx
    /\ UNCHANGED <<db, messages, dupCache, now, exclude_unknown_chats, links,
                   inaccessible_chats, fetched, faults>>
    /\ UNCHANGED <<catalog, call, workers>>

(***************************************************************************)
(* run(), lines 302-308: statistics, then the pause before the next cycle  *)
(***************************************************************************)
EndPass ==
    /\ pc = "loop"
    /\ idx > Len(links)
    /\ stats' = [stats EXCEPT !.logged = @ + 1]
    /\ Sleep(PAUSE_AFTER_FULL_PARSING, dupCache)
    /\ pc' = "query"
    /\ UNCHANGED <<db, messages, exclude_unknown_chats, links, idx, inaccessible_chats,
                   poll, polled, fetched, faults>>
    /\ UNCHANGED <<catalog, call, workers>>

(***************************************************************************)
(* process_chat(), lines 173-192: get_chat, then the join decision         *)
(***************************************************************************)
Resolve ==
    /\ pc = "resolve"
    /\ LET p == [poll EXCEPT !.calls.get_chat = @ + 1]
       IN  \/ \E chat_info \in ChatInfos :
                /\ LET q == [p EXCEPT !.chat_info = <<chat_info>>]
                   IN  IF needs_join(chat_info)
                       THEN IF startswith(links[idx].link, TME_PLUS)
                            THEN poll' = q /\ pc' = "join"
                            ELSE poll' = [q EXCEPT !.exit = "no_invite"] /\ pc' = "finally"
                       ELSE /\ poll' = q
                            /\ pc' = IF startswith(q.chat, TME_PLUS) THEN "fetch_resolve"
                                     ELSE "fetch"
                /\ UNCHANGED <<now, dupCache>>
           \/ \E err \in PlatformErrors :
                IF err.exc \in InvalidHandle \cup {"BadRequest"}
                THEN /\ poll' = [p EXCEPT !.raised = Append(@, [at |-> "resolve", exc |-> err.exc,
                                                                value |-> 0]),
                                          !.exit = "resolve_failed"]
                     /\ pc' = "finally"
                     /\ UNCHANGED <<now, dupCache>>
                ELSE Raise("resolve", err, p, dupCache)
    /\ UNCHANGED <<db, messages, exclude_unknown_chats, links, idx, inaccessible_chats,
                   stats, polled, fetched, faults>>
    /\ UNCHANGED <<catalog, call, workers>>

\* process_chat(), line 188: join_chat
Join ==
    /\ pc = "join"
    /\ LET p == [poll EXCEPT !.calls.join_chat = @ + 1, !.joined = poll.chat_info,
                             !.chat_info = <<>>]
       IN  \/ /\ poll' = p
              /\ pc' = IF startswith(p.chat, TME_PLUS) THEN "fetch_resolve" ELSE "fetch"
              /\ UNCHANGED <<now, dupCache>>
           \/ \E err \in PlatformErrors : Raise("join", err, p, dupCache)
    /\ UNCHANGED <<db, messages, exclude_unknown_chats, links, idx, inaccessible_chats,
                   stats, polled, fetched, faults>>
    /\ UNCHANGED <<catalog, call, workers>>

(***************************************************************************)
(* _get_chat_messages(), lines 238-257                                     *)
(***************************************************************************)
\* an exception inside the generator: its handlers decide whether the caller sees it
FetcherRaises(at, err, p) ==
    IF get_chat_messages_except(err.exc).propagate
    THEN Raise(at, err, p, dupCache)
    ELSE /\ poll' = [p EXCEPT !.raised = Append(@, [at |-> at, exc |-> err.exc,
                                                    value |-> err.value]),
                              !.exit = "completed"]
         /\ pc' = "finally"
         /\ UNCHANGED <<now, dupCache>>

\* lines 239-249: an invite link is resolved once more before the history is read;
\* the inner handlers return on an invalid handle or a BadRequest, the outer ones
\* take the rest: the generator ends in every case
FetchResolve ==
    /\ pc = "fetch_resolve"
    /\ LET p == [poll EXCEPT !.calls.get_chat = @ + 1, !.chat_info = <<>>]
       IN  \/ /\ poll' = [p EXCEPT !.chat = <<PlatformChatId(p.id)>>]
              /\ pc' = "fetch"
              /\ UNCHANGED <<now, dupCache>>
           \/ \E err \in PlatformErrors : FetcherRaises("fetch_resolve", err, p)
    /\ UNCHANGED <<db, messages, exclude_unknown_chats, links, idx, inaccessible_chats,
                   stats, polled, fetched, faults>>
    /\ UNCHANGED <<catalog, call, workers>>

\* line 252: the history ends or get_chat_history raises
FetchEnd ==
    /\ pc = "fetch"
    /\ LET p == [poll EXCEPT !.calls.get_chat_history = 1, !.chat_info = <<>>]
       IN  \/ /\ poll' = [p EXCEPT !.exit = "completed"]
              /\ pc' = "finally"
              /\ UNCHANGED <<now, dupCache>>
           \/ \E err \in PlatformErrors : FetcherRaises("history", err, p)
    /\ UNCHANGED <<db, messages, exclude_unknown_chats, links, idx, inaccessible_chats,
                   stats, polled, fetched, faults>>
    /\ UNCHANGED <<catalog, call, workers>>

(***************************************************************************)
(* process_chat(), lines 196-217: the generator yields a message and the   *)
(* loop body runs: the cap, save_chat_id, process_message, the cursor, the *)
(* pacing delay.  fault is the store call that fails in this iteration.    *)
(* poll.last records the message of the iteration and, when process_message *)
(* returned, how check_duplicate judged it and the categories it matched.   *)
(***************************************************************************)
Iterate ==
    /\ pc = "fetch"
    /\ fetched < MaxFetched
    /\ fetched' = fetched + 1
    /\ \E message \in PlatformMessages, delay \in Delays,
          fault \in {f \in StoreFaults : f # "none" => faults < MaxStoreFaults} :
         /\ faults' = IF fault = "none" THEN faults ELSE faults + 1
         /\ LET p == [poll EXCEPT !.calls.get_chat_history = 1,
                                  !.messages_in_chat = @ + 1,
                                  !.chat_info = <<>>]
                telegram_link == links[idx]
                chat_id == PlatformChatId(telegram_link.id)
                bound == save_chat_id(telegram_link, chat_id, SESSION)
                merges == save_chat_id_binds(telegram_link)
            IN  \E r \in {process_message(message, chat_id, bound, messages, dupCache, now,
                                            fault)} :
                LET advanced == r.ret \notin {NULL, 0}
                    called == ~(merges /\ fault = "save_chat_id")
                    q == [p EXCEPT !.last =
                            <<[id |-> message.id, text |-> message.text,
                               judged |-> IF called THEN r.judged ELSE "raised",
                               categories |-> IF called THEN r.categories ELSE {},
                               max_before |-> poll.max_id,
                               rows_before |-> Len(messages),
                               failed_open |-> /\ called
                                               /\ message.text # <<>>
                                               /\ fault = "check_duplicate"
                                               /\ ~cache_hit(dupCache, message.text),
                               raised |-> ~called \/ r.raised]>>]
                IN  IF over_limit(p.messages_in_chat)
                    THEN /\ poll' = [p EXCEPT !.exit = "limit"]
                         /\ pc' = "finally"
                         /\ UNCHANGED <<db, messages, dupCache, now, links, stats>>
                    ELSE IF merges /\ fault = "save_chat_id"
                    THEN /\ links' = [links EXCEPT ![idx] = bound]
                         /\ Raise("body", [exc |-> "Exception", value |-> 0], q, dupCache)
                         /\ UNCHANGED <<db, messages, stats>>
                    ELSE /\ db' = IF merges THEN [db EXCEPT ![telegram_link.id] = bound] ELSE db
                         /\ messages' = r.messages
                         /\ stats' = [stats EXCEPT !.message_count = @ + 1,
                                                   !.relevant_messages = @ + r.relevant]
                         /\ IF r.raised
                            THEN /\ links' = [links EXCEPT ![idx] = bound]
                                 /\ Raise("body", [exc |-> "Exception", value |-> 0],
                                          [q EXCEPT !.inserted = Len(r.messages) - Len(messages) + @],
                                          r.cache)
                            ELSE /\ links' = [links EXCEPT ![idx] =
                                                IF advanced THEN [bound EXCEPT !.last_check_at = now]
                                                ELSE bound]
                                 /\ poll' = [q EXCEPT
                                               !.max_id = IF advanced THEN advance_cursor(r.ret, @) ELSE @,
                                               !.inserted = Len(r.messages) - Len(messages) + @]
                                 /\ Sleep(delay, r.cache)
                                 /\ pc' = "fetch"
    /\ UNCHANGED <<exclude_unknown_chats, idx, inaccessible_chats, polled>>
    /\ UNCHANGED <<catalog, call, workers>>

(***************************************************************************)
(* process_chat(), lines 224-226, the finally block; then run(), lines     *)
(* 292-300: the try statement around process_chat and the loop's advance   *)
(***************************************************************************)
Finally ==
    /\ pc = "finally"
    /\ db' = [db EXCEPT ![poll.id] =
                process_chat_finally(db[poll.id], links[idx], poll.last_check_at, poll.max_id)]
    /\ inaccessible_chats' = IF poll.propagate
                             THEN inaccessible_chats \cup {links[idx].link}
                             ELSE inaccessible_chats \ {links[idx].link}
    /\ poll' = [poll EXCEPT !.done = TRUE]
    /\ polled' = [polled EXCEPT ![Len(polled)].error = (poll.exit = "error")]
    /\ idx' = run_next_index(idx, Len(links))
    /\ pc' = "loop"
    /\ UNCHANGED <<messages, dupCache, now, exclude_unknown_chats, links, stats,
                   fetched, faults>>
    /\ UNCHANGED <<catalog, call, workers>>

Next ==
    \/ GetLinks
    \/ NextLink
    \/ EndPass
    \/ Resolve
    \/ Join
    \/ FetchResolve
    \/ FetchEnd
    \/ Iterate
    \/ Finally

Spec == Init /\ [][Next]_vars

(***************************************************************************)
(* get_tg_links on its own: the table is drawn from LinkProfiles and the   *)
(* query of run() is applied to it.                                        *)
(***************************************************************************)
LinkProfiles(i) ==
    {Row(i, LINK_PUBLIC, PlatformChatId(i), NULL, NULL, NONE, NONE),
     Row(i, LINK_PUBLIC, PlatformChatId(i), 5, 2, "False", SESSION),
     Row(i, LINK_PUBLIC, PlatformChatId(i), 6, 2, "False", SESSION),
     Row(i, LINK_PUBLIC, PlatformChatId(i), NULL, NULL, "True", SESSION),
     Row(i, LINK_INVITE, NULL, NULL, NULL, NONE, NONE),
     Row(i, LINK_INVITE, NULL, NULL, NULL, "True", NONE),
     Row(i, LINK_PUBLIC, PlatformChatId(i), 5, 2, "False", OTHER_SESSION)}

InitLinks ==
    /\ db \in {t \in [LinkIds -> UNION {LinkProfiles(i) : i \in LinkIds}] :
                 \A i \in LinkIds : t[i].id = i}
    /\ messages = <<>>
    /\ dupCache = {}
    /\ now = T0
    /\ exclude_unknown_chats \in BOOLEAN
    /\ pc = "query"
    /\ links = <<>>
    /\ idx = 1
    /\ inaccessible_chats = {}
    /\ stats = NewStats
    /\ poll = NoPoll
    /\ polled = <<>>
    /\ fetched = 0
    /\ faults = 0
    /\ catalog = InitCatalog
    /\ call = NoCall
    /\ workers = NoWorkers

NextLinks == GetLinks

SpecLinks == InitLinks /\ [][NextLinks]_vars

(***************************************************************************)
(* The helpers on their own: the keyword tables and the arguments of one   *)
(* call are drawn, and the call is made.                                   *)
(***************************************************************************)
Association(c, l) == [category_id |-> c, telegram_link_id |-> l]

\* keyword tables: two categories, each global or not, a keyword stored in
\* lower case or capitalised, any set of associations with the sources 1 and 2
Catalogs ==
    {[categories |-> {[id |-> 7, global_search |-> g7], [id |-> 8, global_search |-> g8]},
      keywords |-> {[id |-> "k1", keyword |-> kw, category_id |-> 7],
                    [id |-> "k2", keyword |-> <<"d","e","a","l">>, category_id |-> 8]},
      category_telegram_link |-> a] :
        g7 \in {0, 1}, g8 \in {0, 1},
        kw \in {<<"s","a","l","e">>, <<"S","a","l","e">>},
        a \in SUBSET {Association(c, l) : c \in {7, 8}, l \in {1, 2}}}

CallTexts == {<<"B","i","g"," ","S","A","L","E">>, <<"s","a","l","e">>,
              <<"a"," ","d","e","a","l">>, <<"h","i">>, <<>>}
CallLinks == {LINK_INVITE, LINK_PUBLIC, LINK_OTHER, LINK_EMPTY, TME, TME_PLUS}
CallChatIds == {NULL, PlatformChatId(1), PlatformChatId(2)}
\* the message table when check_duplicate is called: empty, or one row stored
\* inside the trailing day
SentTables == {<<>>, save_message(<<>>, <<"s","a","l","e">>, {7}, PlatformChatId(1), <<>>, T0)}

Calls ==
    {[NoCall EXCEPT !.op = "get_keyword_rows", !.telegram_link = InitRow(i)] : i \in LinkIds}
      \cup {[NoCall EXCEPT !.op = "find_message_categories", !.text = t,
                           !.telegram_link = InitRow(i)] : t \in CallTexts, i \in LinkIds}
      \cup {[NoCall EXCEPT !.op = "extract_chat",
                           !.telegram_link = Row(1, l, c, NULL, NULL, NONE, NONE)] :
                l \in CallLinks, c \in CallChatIds}
      \cup {[NoCall EXCEPT !.op = "check_duplicate", !.text = t, !.internal_error = e] :
                t \in CallTexts, e \in BOOLEAN}

InitHelpers ==
    /\ db = [i \in LinkIds |-> InitRow(i)]
    /\ call \in Calls
    /\ messages \in IF call.op = "check_duplicate" THEN SentTables ELSE {<<>>}
    /\ dupCache = {}
    /\ now = T0
    /\ exclude_unknown_chats = TRUE
    /\ pc = "call"
    /\ links = <<>>
    /\ idx = 1
    /\ inaccessible_chats = {}
    /\ stats = NewStats
    /\ poll = NoPoll
    /\ polled = <<>>
    /\ fetched = 0
    /\ faults = 0
    /\ catalog \in Catalogs
    /\ workers = NoWorkers

Returns(op, result) ==
    /\ call.op = op
    /\ ~call.done
    /\ call' = [call EXCEPT !.done = TRUE, !.result = result]
    /\ UNCHANGED <<db, messages, dupCache, now, exclude_unknown_chats, pc, links, idx,
                   inaccessible_chats, stats, poll, polled, fetched, faults, catalog, workers>>

GetKeywordRows == Returns("get_keyword_rows", get_keyword_rows(call.telegram_link.id))

FindMessageCategories ==
    Returns("find_message_categories", find_message_categories(call.text, call.telegram_link))

ExtractChat == Returns("extract_chat", extract_chat(call.telegram_link))

\* check_duplicate(text) on an empty cache: the verdict, and the entry the
\* cache keeps for it
CheckDuplicate ==
    /\ call.op = "check_duplicate"
    /\ ~call.done
    /\ \E r \in {check_duplicate(call.text, messages, dupCache, now, call.internal_error)} :
          /\ call' = [call EXCEPT !.done = TRUE, !.result = r.value]
          /\ dupCache' = r.cache
    /\ UNCHANGED <<db, messages, now, exclude_unknown_chats, pc, links, idx,
                   inaccessible_chats, stats, poll, polled, fetched, faults, catalog, workers>>

NextHelpers ==
    \/ GetKeywordRows
    \/ FindMessageCategories
    \/ ExtractChat
    \/ CheckDuplicate

SpecHelpers == InitHelpers /\ [][NextHelpers]_vars

(***************************************************************************)
(* Two parser processes in discovery mode (exclude_unknown_chats = False)  *)
(* on one store: each runs run() with its own session name and holds the   *)
(* row it selected as an object of its own.                                *)
(***************************************************************************)
InitWorkers ==
    /\ db \in {t \in [LinkIds -> UNION {LinkProfiles(i) : i \in LinkIds}] :
                 \A i \in LinkIds : t[i].id = i}
    /\ messages = <<>>
    /\ dupCache = {}
    /\ now = T0
    /\ exclude_unknown_chats = FALSE
    /\ pc = "workers"
    /\ links = <<>>
    /\ idx = 1
    /\ inaccessible_chats = {}
    /\ stats = NewStats
    /\ poll = NoPoll
    /\ polled = <<>>
    /\ fetched = 0
    /\ faults = 0
    /\ catalog = InitCatalog
    /\ call = NoCall
    /\ workers = [w \in Workers |-> [pc |-> "query", telegram_link |-> <<>>]]

WorkerFrame ==
    UNCHANGED <<messages, dupCache, now, exclude_unknown_chats, pc, links, idx,
                inaccessible_chats, stats, poll, polled, fetched, faults, catalog, call>>

\* run() line 271: the query returns one unbound source, which process_chat takes
WorkerGetLinks(w) ==
    /\ workers[w].pc = "query"
    /\ \E result \in get_tg_links(db, exclude_unknown_chats, w) :
          /\ ~no_links(result)
          /\ workers' = [workers EXCEPT ![w] = [pc |-> "poll", telegram_link |-> result[1]]]
    /\ UNCHANGED db
    /\ WorkerFrame

\* process_chat() line 204: the first message of the history arrives and
\* save_chat_id merges the worker's object into the store
WorkerSaveChatId(w) ==
    /\ workers[w].pc = "poll"
    /\ LET telegram_link == workers[w].telegram_link
           bound == save_chat_id(telegram_link, PlatformChatId(telegram_link.id), w)
       IN  /\ db' = IF save_chat_id_binds(telegram_link)
                    THEN [db EXCEPT ![telegram_link.id] = bound] ELSE db
           /\ workers' = [workers EXCEPT ![w] = [pc |-> "bound", telegram_link |-> bound]]
    /\ WorkerFrame

\* process_chat() returns, with or without a message seen; the finally block
\* writes nothing; run() pauses and queries again
WorkerEndPoll(w) ==
    /\ workers[w].pc \in {"poll", "bound"}
    /\ workers' = [workers EXCEPT ![w] = [pc |-> "query", telegram_link |-> <<>>]]
    /\ db' = [db EXCEPT ![workers[w].telegram_link.id] =
                process_chat_finally(@, workers[w].telegram_link, now, 0)]
    /\ WorkerFrame

NextWorkers ==
    \/ \E w \in Workers : WorkerGetLinks(w)
    \/ \E w \in Workers : WorkerSaveChatId(w)
    \/ \E w \in Workers : WorkerEndPoll(w)

SpecWorkers == InitWorkers /\ [][NextWorkers]_vars

(***************************************************************************)
(* run() in default mode with more eligible sources than one query         *)
(* returns: every row is bound and owned by the worker, the first has an   *)
(* invite link, all but the last were polled at different times, the last  *)
(* was polled after them or never.                                         *)
(***************************************************************************)
CycleRows ==
    {[i \in LinkIds |->
        Row(i, IF i = 1 THEN LINK_INVITE ELSE LINK_PUBLIC, PlatformChatId(i),
            IF i = NumLinks THEN last ELSE i, 2, "False", SESSION)] :
       last \in {NumLinks, NULL}}

InitCycles ==
    /\ db \in CycleRows
    /\ messages = <<>>
    /\ dupCache = {}
    /\ now = T0
    /\ exclude_unknown_chats = TRUE
    /\ pc = "query"
    /\ links = <<>>
    /\ idx = 1
    /\ inaccessible_chats = {}
    /\ stats = NewStats
    /\ poll = NoPoll
    /\ polled = <<>>
    /\ fetched = 0
    /\ faults = 0
    /\ catalog = InitCatalog
    /\ call = NoCall
    /\ workers = NoWorkers

SpecCycles == InitCycles /\ [][Next]_vars

(***************************************************************************)
(* Properties                                                              *)
(***************************************************************************)
Cursor(row) == IF row.last_message_id = NULL THEN 0 ELSE row.last_message_id
Stripped(text) == html_text(split_anchor_head(text))
PollEnded == poll.id # 0 /\ poll.done
RaisedAt(places, exc) ==
    \E k \in 1..Len(poll.raised) : poll.raised[k].at \in places /\ poll.raised[k].exc = exc

\* C1: once a poll that entered the try statement of process_chat has ended, on
\* whatever exit path, the stored row of the source holds the cursor (max_id) and
\* the poll timestamp (last_check_at) the poll accumulated.
C1_WriteBackOnEveryExit ==
    PollEnded =>
        /\ db[poll.id].last_message_id = poll.max_id
        /\ db[poll.id].last_check_at = poll.last_check_at

\* C2: no step lowers the stored cursor of any source, and the cursor a poll holds
\* for its source (max_id, the value handed to the write-back) is never below the
\* cursor the source had when the poll began.
C2_CursorNeverRegresses ==
    [][/\ \A i \in LinkIds : Cursor(db'[i]) >= Cursor(db[i])
       /\ poll'.id # 0 => poll'.max_id >= Cursor(poll'.before[1])]_vars

\* a poll has ended with its cursor above the source's stored one, after it
\* has also seen a message
C2_Witness ==
    /\ PollEnded
    /\ poll.messages_in_chat >= 2
    /\ poll.max_id > Cursor(poll.before[1])

\* C3: no two rows of the message table that come from different messages and
\* were inserted less than 24 hours apart have the same text once the
\* attribution is stripped.
C3_NoDuplicatePersisted ==
    \A i, j \in 1..Len(messages) :
        (/\ i < j
         /\ messages[i].link # messages[j].link
         /\ messages[j].created_at - messages[i].created_at < DUPLICATE_WINDOW)
            => Stripped(messages[i].text) # Stripped(messages[j].text)

\* C4: while run() walks a batch, every link before the loop's position has been
\* handed to process_chat, in the batch's order, whatever the earlier polls ended
\* in; so at the end of the pass every selected source has been polled.
C4_PassNotAborted ==
    pc \in {"loop", "resolve", "join", "fetch_resolve", "fetch", "finally"} =>
        /\ idx <= Len(links) + 1
        /\ Len(polled) = (IF pc = "loop" THEN idx - 1 ELSE idx)
        /\ \A k \in 1..Len(polled) : polled[k].id = links[k].id

\* the pass is over, it had at least two sources, and the poll of one that was
\* not the last ended in the handler of unexpected errors
C4_Witness ==
    /\ pc = "loop"
    /\ idx > Len(links)
    /\ Len(polled) >= 2
    /\ \E k \in 1..(Len(polled) - 1) : polled[k].error

\* C5: no exception leaves process_chat: whatever was raised in the poll, the
\* call returns normally and run() never records the link as failed.
C5_NeverPropagates ==
    /\ ~poll.propagate
    /\ inaccessible_chats = {}

\* a poll has ended after a store call of the loop body raised
C5_Witness ==
    /\ PollEnded
    /\ poll.exit = "error"
    /\ RaisedAt({"body"}, "Exception")

\* C6: a FloodWait raised by get_chat_history after the poll has processed
\* messages reaches process_chat's FloodWait handler, which sleeps the signalled
\* duration before the poll ends.
C6_FloodWaitInPaginationSleeps ==
    \A k \in 1..Len(poll.raised) :
        (/\ PollEnded
         /\ poll.messages_in_chat >= 1
         /\ poll.raised[k].at = "history"
         /\ poll.raised[k].exc = "FloodWait")
            => /\ poll.exit = "floodwait"
               /\ poll.slept = <<poll.raised[k].value>>

\* C7: after a FloodWait with duration D from get_chat (resolve) or join_chat,
\* the handler has slept D once, the clock stands D after the poll's start, no
\* platform call was made after the failing one, and the poll is ending.
C7_FloodWaitAtResolveOrJoin ==
    \A k \in 1..Len(poll.raised) :
        (poll.raised[k].at \in {"resolve", "join"} /\ poll.raised[k].exc = "FloodWait")
            => /\ Len(poll.raised) = 1
               /\ poll.slept = <<poll.raised[k].value>>
               /\ poll.done \/ now = poll.last_check_at + poll.raised[k].value
               /\ poll.calls = [get_chat |-> 1,
                                join_chat |-> IF poll.raised[k].at = "join" THEN 1 ELSE 0,
                                get_chat_history |-> 0]
               /\ poll.messages_in_chat = 0
               /\ poll.exit = "floodwait"
               /\ pc = "finally" \/ poll.done

\* a poll has ended after join_chat raised FloodWait
C7_Witness ==
    /\ PollEnded
    /\ RaisedAt({"join"}, "FloodWait")

\* C8: a poll that ended at the resolve step on an invalid handle or a BadRequest
\* fetched nothing, persisted nothing, and left the stored cursor and the stored
\* poll timestamp of the source as they were before the poll.
C8_ResolveFailureLeavesStoreUnchanged ==
    (PollEnded /\ poll.exit = "resolve_failed") =>
        /\ db[poll.id].last_message_id = poll.before[1].last_message_id
        /\ db[poll.id].last_check_at = poll.before[1].last_check_at
        /\ poll.calls = [get_chat |-> 1, join_chat |-> 0, get_chat_history |-> 0]
        /\ poll.messages_in_chat = 0
        /\ poll.inserted = 0

\* a poll has ended at the resolve step on UsernameInvalid
C8_Witness ==
    /\ PollEnded
    /\ poll.exit = "resolve_failed"
    /\ RaisedAt({"resolve"}, "UsernameInvalid")

\* the batch as get_tg_links returned it in the default mode
FreshBatch == pc = "loop" /\ idx = 1 /\ polled = <<>> /\ exclude_unknown_chats
LeftOut == eligible(db, TRUE, SESSION) \ {links[i].id : i \in 1..Len(links)}
NeverPolled(row) == row.last_check_at = NULL

\* C9 as stated: the batch has at most the limit of sources, the never-polled
\* ones first, then the polled ones by ascending last_check_at; no polled source
\* is selected while a never-polled eligible one is left out.
C9_NeverPolledFirst ==
    FreshBatch =>
        /\ Len(links) <= BatchLimit
        /\ \A i, j \in 1..Len(links) : i < j =>
              /\ ~(~NeverPolled(links[i]) /\ NeverPolled(links[j]))
              /\ (~NeverPolled(links[i]) /\ ~NeverPolled(links[j]))
                    => links[i].last_check_at <= links[j].last_check_at
        /\ (\E i \in 1..Len(links) : ~NeverPolled(links[i]))
              => \A e \in LeftOut : ~NeverPolled(db[e])

\* C9 amended: the batch has at most the limit of sources, all of them eligible,
\* the polled ones first by ascending last_check_at, then the never-polled ones;
\* no never-polled source is selected while a polled eligible one is left out,
\* and no polled source is left out for one polled later.
C9_PolledFirst ==
    FreshBatch =>
        /\ Len(links) <= BatchLimit
        /\ \A i \in 1..Len(links) :
              links[i] = db[links[i].id] /\ links[i].id \in eligible(db, TRUE, SESSION)
        /\ \A i, j \in 1..Len(links) : i < j =>
              /\ links[i].id # links[j].id
              /\ ~(NeverPolled(links[i]) /\ ~NeverPolled(links[j]))
              /\ (~NeverPolled(links[i]) /\ ~NeverPolled(links[j]))
                    => links[i].last_check_at <= links[j].last_check_at
        /\ \A i \in 1..Len(links), e \in LeftOut :
              /\ NeverPolled(links[i]) => NeverPolled(db[e])
              /\ (~NeverPolled(links[i]) /\ ~NeverPolled(db[e]))
                    => links[i].last_check_at <= db[e].last_check_at
        /\ LeftOut # {} => Len(links) = BatchLimit

\* a full batch that holds a polled and a never-polled source while another
\* eligible source is left out
C9_Witness ==
    /\ FreshBatch
    /\ Len(links) = BatchLimit
    /\ \E i, j \in 1..Len(links) : ~NeverPolled(links[i]) /\ NeverPolled(links[j])
    /\ LeftOut # {}

\* C10: no source whose invalid flag is set is in a batch get_tg_links returned,
\* in either mode.
C10_InvalidNeverSelected ==
    \A i \in 1..Len(links) : links[i].invalid # "True"

Returned(op) == call.op = op /\ call.done

\* C11: the keyword rows loaded for a source are exactly the keywords of the
\* categories associated with the source and of every global category, whether
\* or not the global category is associated with any source.
C11_KeywordsOfSourceAndGlobal ==
    Returned("get_keyword_rows") =>
        call.result =
            {k \in catalog.keywords :
                \E c \in catalog.categories :
                    /\ c.id = k.category_id
                    /\ \/ c.global_search = 1
                       \/ Association(c.id, call.telegram_link.id)
                              \in catalog.category_telegram_link}

\* C12: find_message_categories returns exactly the categories of the loaded
\* keywords that occur in the text when both the keyword and the text are
\* lower-cased; so the result does not depend on the casing of either.
C12_CaseInsensitiveContainment ==
    Returned("find_message_categories") =>
        call.result =
            {k.category_id :
                k \in {kr \in get_keyword_rows(call.telegram_link.id) :
                          contains(lower(call.text), lower(kr.keyword))}}

\* C13: extract_chat returns an invite link unchanged, a public link without
\* its "t.me/" prefix, otherwise the bound chat id if there is one (also when
\* the link is empty or null), otherwise None.
C13_ExtractChatPrecedence ==
    Returned("extract_chat") =>
        call.result =
            (LET telegram_link == call.telegram_link
             IN  IF startswith(telegram_link.link, TME_PLUS) THEN telegram_link.link
                 ELSE IF startswith(telegram_link.link, TME) THEN Tail(telegram_link.link)
                 ELSE IF telegram_link.chat_id # NULL THEN <<telegram_link.chat_id>>
                 ELSE <<>>)

\* a step of the loop body of process_chat that took a message from the fetcher
Fetched == pc = "fetch" /\ poll'.messages_in_chat = poll.messages_in_chat + 1
\* the message went past the cap: the loop body ran for it
Processed == Fetched /\ poll'.exit # "limit"
LastMessage == poll.last[1]

\* C14: a poll takes at most MaxMessagesPerChat + 1 messages from the fetcher
\* (300 + 1 in the program); taking the one after the cap ends the loop and
\* changes nothing: no chat id bound, no statistics, no duplicate check, no row,
\* no cursor move, no delay.
C14_AtMostCapProcessed ==
    [][Fetched =>
          /\ poll'.messages_in_chat <= MaxMessagesPerChat + 1
          /\ poll.messages_in_chat >= MaxMessagesPerChat =>
                /\ UNCHANGED <<db, messages, stats, dupCache, links, now>>
                /\ poll'.max_id = poll.max_id
                /\ poll'.last = poll.last
                /\ poll'.exit = "limit"
                /\ pc' = "finally"]_vars

\* a poll has ended at the cap after it processed as many messages as the cap
C14_Witness ==
    /\ PollEnded
    /\ poll.exit = "limit"
    /\ poll.messages_in_chat = MaxMessagesPerChat + 1
    /\ stats.message_count >= MaxMessagesPerChat

C16_OwnerNeverReplaced ==
    [][\A i \in LinkIds :
          db[i].parser_account # NONE => db'[i].parser_account = db[i].parser_account]_vars

JoinRaised == \E k \in 1..Len(poll.raised) : poll.raised[k].at = "join"
Restricted(chat_info) ==
    chat_info.type \in {"group", "supergroup", "channel"} /\ ~chat_info.is_accessible
InviteLink == startswith(poll.before[1].link, TME_PLUS)

\* C17: poll.chat_info is the chat as get_chat resolved it, until join_chat is
\* called or the fetcher is entered; poll.joined is the chat join_chat was
\* called for.  When the resolved chat is a group, supergroup or channel that is
\* not accessible: with a link that is not an invite link, join_chat is not
\* called and the poll ends before the fetcher is entered; with an invite link,
\* join_chat is called, once, and when it returns the poll enters the fetcher.
\* For any other chat the poll goes to the fetcher without join_chat, so
\* join_chat is never called for a chat that is accessible.
C17_JoinOnlyWhenRestrictedWithInvite ==
    poll.id # 0 =>
        /\ poll.calls.join_chat <= 1
        /\ poll.chat_info # <<>> =>
              /\ poll.calls = [get_chat |-> 1, join_chat |-> 0, get_chat_history |-> 0]
              /\ poll.messages_in_chat = 0
              /\ IF Restricted(poll.chat_info[1])
                 THEN IF InviteLink
                      THEN pc = "join"
                      ELSE /\ poll.exit = "no_invite"
                           /\ pc = "finally" \/ poll.done
                 ELSE pc \in {"fetch_resolve", "fetch"}
        /\ poll.exit = "no_invite" => poll.chat_info # <<>>
        /\ pc = "join" => poll.chat_info # <<>>
        /\ poll.calls.join_chat = 0 => poll.joined = <<>>
        /\ poll.calls.join_chat = 1 =>
              /\ poll.joined # <<>>
              /\ Restricted(poll.joined[1])
              /\ ~poll.joined[1].is_accessible
              /\ InviteLink
              /\ IF JoinRaised
                 THEN /\ poll.calls.get_chat = 1
                      /\ poll.calls.get_chat_history = 0
                      /\ pc = "finally" \/ poll.done
                 ELSE pc = "fetch_resolve" \/ poll.calls.get_chat = 2

\* a poll of an invite link joined the inaccessible chat and went on to process
\* a message
C17_Witness ==
    /\ PollEnded
    /\ poll.joined = <<[type |-> "supergroup", is_accessible |-> FALSE]>>
    /\ poll.calls.join_chat = 1
    /\ poll.calls.get_chat_history = 1
    /\ poll.messages_in_chat >= 1

Positions == {"query", "loop", "resolve", "join", "fetch_resolve", "fetch", "finally"}

\* C18: run() is always at a position of its loop and, as long as the clock
\* horizon lets its sleeps end, has a next step.  A query that gives no links
\* (an empty result or a failed query) is followed by a sleep of 300 seconds and
\* the next query, with no poll and no statistics; a query that gives links is
\* followed by the polls of all of them, the statistics once, a sleep of 6 hours
\* and the next query.  No other step leads to a query.
C18_CycleShape ==
    /\ [](/\ pc \in Positions
          /\ stats.logged <= 1
          /\ stats.logged = 1 => pc = "query"
          /\ now + PAUSE_AFTER_FULL_PARSING <= MaxClock => ENABLED Next)
    /\ [][/\ (pc = "query" /\ pc' = "query") =>
                /\ now' = now + NO_LINKS_SLEEP
                /\ stats' = NewStats
                /\ polled' = <<>>
                /\ UNCHANGED <<db, messages, links>>
          /\ (pc = "query" /\ pc' # "query") =>
                /\ pc' = "loop"
                /\ links' # <<>>
                /\ idx' = 1
                /\ now' = now
                /\ stats' = NewStats
          /\ (pc # "query" /\ pc' = "query") =>
                /\ pc = "loop"
                /\ idx > Len(links)
                /\ Len(polled) = Len(links)
                /\ stats' = [stats EXCEPT !.logged = 1]
                /\ stats.chats_count = Len(links)
                /\ now' = now + PAUSE_AFTER_FULL_PARSING]_vars

\* a pass over two sources has ended: the statistics are logged and the 6 hour
\* pause is over
C18_Witness ==
    /\ pc = "query"
    /\ stats.logged = 1
    /\ Len(links) >= 2
    /\ Len(polled) = Len(links)
    /\ now >= T0 + PAUSE_AFTER_FULL_PARSING

\* C19: after process_message has returned for a message that check_duplicate
\* rejected, max_id is what it was before the message, also when the message's
\* id is greater; after it has returned for a message with text that
\* check_duplicate let through, stored or not, max_id is the greater of its
\* former value and the message's id.
C19_DuplicateKeepsCursor ==
    (poll.id # 0 /\ poll.last # <<>> /\ ~LastMessage.raised) =>
        /\ LastMessage.judged = "duplicate" => poll.max_id = LastMessage.max_before
        /\ LastMessage.judged = "unique" =>
              poll.max_id = Max(LastMessage.max_before, LastMessage.id)

\* a message rejected as a duplicate had an id above the cursor
C19_Witness ==
    /\ poll.id # 0
    /\ poll.last # <<>>
    /\ LastMessage.judged = "duplicate"
    /\ LastMessage.id > LastMessage.max_before
    /\ poll.max_id = LastMessage.max_before

\* C20: after process_message has returned for a message with text that is not
\* a duplicate and matches no category, no row has been added to the message
\* table and max_id is the greater of its former value and the message's id.
C20_UnmatchedAdvancesCursor ==
    (/\ poll.id # 0
     /\ poll.last # <<>>
     /\ LastMessage.text # <<>>
     /\ LastMessage.judged = "unique"
     /\ LastMessage.categories = {})
        => /\ Len(messages) = LastMessage.rows_before
           /\ poll.max_id = Max(LastMessage.max_before, LastMessage.id)

\* an unmatched message with an id above the cursor has moved the cursor
C20_Witness ==
    /\ poll.id # 0
    /\ poll.last # <<>>
    /\ LastMessage.judged = "unique"
    /\ LastMessage.categories = {}
    /\ LastMessage.id > LastMessage.max_before
    /\ poll.max_id = LastMessage.id
    /\ Len(messages) = LastMessage.rows_before

Bound(row) == row.chat_id # NULL /\ row.chat_id # 0

\* C21: the chat-id binding of a source is written at most once: no step
\* changes chat_id or parser_account of a stored source whose chat_id is
\* already bound, however many workers poll it and however many messages each
\* of them reads.
C21_BoundNeverRewritten ==
    [][\A i \in LinkIds :
          Bound(db[i]) => /\ db'[i].chat_id = db[i].chat_id
                          /\ db'[i].parser_account = db[i].parser_account]_vars

\* C22: for empty input text the verdict of check_duplicate is "duplicate":
\* the call returns the value it returns for a text similar to a stored one
\* (False), on which the caller suppresses the message.
C22_EmptyTextIsDuplicate ==
    (Returned("check_duplicate") /\ call.text = <<>>) => call.result = FALSE

\* C23: poll.last.failed_open records that the body of check_duplicate failed
\* (store query or similarity computation) for the last message.  The failure
\* is not raised: process_message returns, the message is judged not duplicate,
\* its categories are those find_message_categories gives for its text, and it
\* is inserted when they are not empty.
C23_InternalErrorFailsOpen ==
    (poll.id # 0 /\ poll.last # <<>> /\ LastMessage.failed_open)
        => /\ ~LastMessage.raised
           /\ LastMessage.judged = "unique"
           /\ LastMessage.categories =
                  find_message_categories(LastMessage.text, db[poll.id])
           /\ Len(messages) = LastMessage.rows_before
                                + (IF LastMessage.categories = {} THEN 0 ELSE 1)

\* the check failed for a message whose text is already stored; the message
\* matched a category and was inserted
C23_Witness ==
    /\ poll.id # 0
    /\ poll.last # <<>>
    /\ LastMessage.failed_open
    /\ LastMessage.categories # {}
    /\ LastMessage.rows_before > 0
    /\ Len(messages) = LastMessage.rows_before + 1
    /\ messages[Len(messages)].categories = LastMessage.categories

BatchIds(batch) == {batch[i].id : i \in 1..Len(batch)}

\* C25: no starvation in default mode.  When the query of a cycle follows a
\* full pass and more sources are eligible than one query returns, the sources
\* the last batch left out come before the ones it polled: the new batch holds
\* them all, or is made of them alone when they outnumber the limit, so the
\* same batch is not selected again.
C25_LeftOutSelectedNext ==
    [][(/\ exclude_unknown_chats
        /\ pc = "query"
        /\ pc' = "loop"
        /\ links # <<>>
        /\ Cardinality(eligible(db, TRUE, SESSION)) > BatchLimit)
          => LET left == eligible(db, TRUE, SESSION) \ BatchIds(links)
             IN  /\ Cardinality(left \cap BatchIds(links')) =
                        Min(Cardinality(left), BatchLimit)
                 /\ BatchIds(links') # BatchIds(links)]_vars

====
